---------------------------- MODULE Spec2Model ----------------------------
(***************************************************************************)
(* A model of the chess tournament tools of this repository:               *)
(*   src/interactive_tournament.py  speed_chess_tournament_fixed_pairing   *)
(*   src/tournament_simulator.py    simulate_chess_tournament              *)
(* Both drivers validate their parameters, create the player records and   *)
(* then run num_rounds rounds: shuffle, sort by wins, pair greedily with   *)
(* find_best_opponent, then either read and validate a result declaration  *)
(* from the terminal (interactive) or sample one outcome per match         *)
(* (simulated), and update the records.                                    *)
(***************************************************************************)
EXTENDS Integers, Sequences, FiniteSets, TLC

VARIABLES
    variant,            \* which file runs: "interactive" or "simulated"
    num_players,        \* parameter
    num_rounds,         \* parameter
    rated_percentage,   \* parameter, in hundredths (0.8 is 80)
    pc,                 \* position of the driver
    players,            \* id -> [rating, wins, losses, draws, played]
    round_num,          \* loop variable of the round loop
    players_to_pair,    \* working list of the pairing loop
    round_pairings_list,\* pairs formed this round, in formation order
    bye_player_id,      \* None or the id left unpaired
    tournament_history, \* round number -> list of pairs
    displayed_matches,  \* set of canonical pairs shown for the round
    winners,            \* winners list of the declaration being handled
    draws,              \* draws list of the declaration being handled
    input_ok,           \* whether the two input lines parsed ([w |-> , d |-> ])
    verdict,            \* what the result validation printed last
    pairing_error,      \* which pairing warning/error was printed, if any
    sorted_player_ids,  \* final standings order
    result,             \* return value of the driver
    round_start,        \* history variable: players at the start of the round
    sel                 \* input and output of a stand-alone selector call

vars == << variant, num_players, num_rounds, rated_percentage, pc, players,
           round_num, players_to_pair, round_pairings_list, bye_player_id,
           tournament_history, displayed_matches, winners, draws, input_ok,
           verdict, pairing_error, sorted_player_ids, result, round_start,
           sel >>

-----------------------------------------------------------------------------
(* Bounds of the model. *)

MaxPlayers == 4

MaxRounds == 2

\* A declaration holds at most MaxDecl entries (winners plus draw pairs).
MaxDecl == 2

\* Stand-alone selector calls: ids 1..SelPlayers with wins in 0..SelMaxWins.
SelPlayers == 4

SelMaxWins == 2

-----------------------------------------------------------------------------
(* Values. *)

\* Python's None, for an id or a rating (ids start at 1, ratings at 1000).
None == 0

DEFAULT_UNRATED_SIM_RATING == 1400

\* The 'draw' outcome of simulate_match_result (ids start at 1).
DrawOutcome == -1

\* rated_percentage values tried, in hundredths; -1 and 101 are out of range.
PctChoices == {-1, 0, 100, 101}

\* Values random.random() may return, in hundredths.
RandomDraws == {50}

\* Values random.randint(1000, 2000) may return.
RatingDraws == {1500}

Abs(x) == IF x < 0 THEN -x ELSE x

Min2(a, b) == IF a < b THEN a ELSE b

Max2(a, b) == IF a < b THEN b ELSE a

\* A pair kept in the order in which its members were found.
SortedPair_as_formed(a, b) == << a, b >>

\* tuple(sorted((a, b)))
SortedPair(a, b) == << Min2(a, b), Max2(a, b) >>

Range(s) == { s[i] : i \in 1..Len(s) }

\* list.remove(x): removes the first occurrence.
Remove(s, x) ==
    LET i == CHOOSE j \in 1..Len(s) :
                 s[j] = x /\ \A k \in 1..(j-1) : s[k] # x
    IN  [ p \in 1..(Len(s)-1) |-> IF p < i THEN s[p] ELSE s[p+1] ]

\* The elements of s whose key is v, in their order in s.
WithKey(s, k, v) == SelectSeq(s, LAMBDA e : k[e] = v)

\* sorted(s, key=k): ascending and stable.  The result lists the keys in
\* ascending order and, under one key, the elements in their input order.
RECURSIVE SortAscFrom(_, _, _)
SortAscFrom(s, k, keys) ==
    IF keys = {} THEN << >>
    ELSE LET v == CHOOSE x \in keys : \A y \in keys : x <= y
         IN  WithKey(s, k, v) \o SortAscFrom(s, k, keys \ {v})

StableSortAsc(s, k) == SortAscFrom(s, k, { k[s[i]] : i \in 1..Len(s) })

\* sorted(s, key=k, reverse=True) and list.sort(key=k, reverse=True):
\* descending, and still stable (equal keys keep their input order).
RECURSIVE SortDescFrom(_, _, _)
SortDescFrom(s, k, keys) ==
    IF keys = {} THEN << >>
    ELSE LET v == CHOOSE x \in keys : \A y \in keys : x >= y
         IN  WithKey(s, k, v) \o SortDescFrom(s, k, keys \ {v})

StableSortDesc(s, k) == SortDescFrom(s, k, { k[s[i]] : i \in 1..Len(s) })

\* All orders of the ids 1..n: what random.shuffle may produce.
Permutations_(n) == Permutations(1..n)

\* list(players.keys()): insertion order, 1..n.
PlayerKeys == [ i \in 1..num_players |-> i ]

-----------------------------------------------------------------------------
(* find_best_opponent, once per file. *)

\* A selector that forgets the played set: it always takes the candidate
\* closest in wins.
find_best_opponent_ignoring_played(player1_id, potential_opponents_ids, players_data) ==
    IF potential_opponents_ids = << >> THEN None
    ELSE
        LET p1_wins == players_data[player1_id].wins
            key == [ opp_id \in Range(potential_opponents_ids) |->
                       Abs(players_data[opp_id].wins - p1_wins) ]
        IN  StableSortAsc(potential_opponents_ids, key)[1]

\* A selector without the second attempt: None when every candidate was
\* played.
find_best_opponent_no_fallback(player1_id, potential_opponents_ids, players_data) ==
    IF potential_opponents_ids = << >> THEN None
    ELSE
        LET p1_wins == players_data[player1_id].wins
            p1_played == players_data[player1_id].played
            key == [ opp_id \in Range(potential_opponents_ids) |->
                       Abs(players_data[opp_id].wins - p1_wins) ]
            sorted_opponents == StableSortAsc(potential_opponents_ids, key)
            new == { i \in 1..Len(sorted_opponents) :
                         sorted_opponents[i] \notin p1_played }
        IN  IF new # {}
            THEN sorted_opponents[CHOOSE i \in new : \A j \in new : i <= j]
            ELSE None

\* src/interactive_tournament.py
find_best_opponent(player1_id, potential_opponents_ids, players_data) ==
    IF potential_opponents_ids = << >> THEN None
    ELSE
        LET p1_wins == players_data[player1_id].wins
            p1_played == players_data[player1_id].played
            key == [ opp_id \in Range(potential_opponents_ids) |->
                       Abs(players_data[opp_id].wins - p1_wins) ]
            sorted_opponents == StableSortAsc(potential_opponents_ids, key)
            \* Attempt 1: positions of the new opponents, in sorted order
            new == { i \in 1..Len(sorted_opponents) :
                         sorted_opponents[i] \notin p1_played }
            found_new_opponent == new # {}
        IN  IF found_new_opponent
            THEN sorted_opponents[CHOOSE i \in new : \A j \in new : i <= j]
            ELSE \* Attempt 2: the first of the sorted list
                 IF sorted_opponents # << >> THEN sorted_opponents[1] ELSE None

\* src/tournament_simulator.py
find_best_opponent_sim(player1_id, potential_opponents_ids, players_data) ==
    IF potential_opponents_ids = << >> THEN None
    ELSE
        LET p1_wins == players_data[player1_id].wins
            p1_played == players_data[player1_id].played
            key == [ opp_id \in Range(potential_opponents_ids) |->
                       Abs(players_data[opp_id].wins - p1_wins) ]
            sorted_opponents == StableSortAsc(potential_opponents_ids, key)
            new == { i \in 1..Len(sorted_opponents) :
                         sorted_opponents[i] \notin p1_played }
            found_new_opponent == new # {}
        IN  IF found_new_opponent
            THEN sorted_opponents[CHOOSE i \in new : \A j \in new : i <= j]
            ELSE IF (~found_new_opponent) /\ sorted_opponents # << >>
                 THEN sorted_opponents[1] ELSE None

-----------------------------------------------------------------------------
(* Setup: parameter validation and player initialization. *)

\* A validation that lets a single player through.
ParamsValid_no_player_check(n, r, pct) ==
    /\ r >= 1
    /\ 0 <= pct /\ pct <= 100

\* The three checks at the head of both drivers (the parameters of the
\* model are integers, so the isinstance tests hold).
ParamsValid(n, r, pct) ==
    /\ n >= 2
    /\ r >= 1
    /\ 0 <= pct /\ pct <= 100

NewPlayer(rating) ==
    [ rating |-> rating, wins |-> 0, losses |-> 0, draws |-> 0, played |-> {} ]

\* interactive: random.randint(..) if random.random() <= rated_percentage
I_InitialPlayers ==
    { [ i \in 1..num_players |->
          NewPlayer(IF rd[i] <= rated_percentage THEN rt[i] ELSE None) ] :
      rd \in [1..num_players -> RandomDraws],
      rt \in [1..num_players -> RatingDraws] }

\* simulated: is_rated = random.random() < rated_percentage
S_InitialPlayers ==
    { [ i \in 1..num_players |->
          NewPlayer(IF rd[i] < rated_percentage THEN rt[i] ELSE None) ] :
      rd \in [1..num_players -> RandomDraws],
      rt \in [1..num_players -> RatingDraws] }

NoInput == [ w |-> TRUE, d |-> TRUE ]

Init ==
    /\ variant \in {"interactive", "simulated"}
    /\ num_players \in 0..MaxPlayers
    /\ num_rounds \in 0..MaxRounds
    /\ rated_percentage \in PctChoices
    /\ pc = "start"
    /\ players = << >>
    /\ round_num = 0
    /\ players_to_pair = << >>
    /\ round_pairings_list = << >>
    /\ bye_player_id = None
    /\ tournament_history = << >>
    /\ displayed_matches = {}
    /\ winners = << >>
    /\ draws = << >>
    /\ input_ok = NoInput
    /\ verdict = "none"
    /\ pairing_error = "none"
    /\ sorted_player_ids = << >>
    /\ result = "running"
    /\ round_start = << >>
    /\ sel = << >>

\* Lines 68-76 / 87-95: an invalid parameter returns None at once.
SetupError ==
    /\ pc = "start"
    /\ ~ParamsValid(num_players, num_rounds, rated_percentage)
    /\ pc' = "failed"
    /\ result' = "None"
    /\ UNCHANGED << variant, num_players, num_rounds, rated_percentage,
                    players, round_num, players_to_pair, round_pairings_list,
                    bye_player_id, tournament_history, displayed_matches,
                    winners, draws, input_ok, verdict, pairing_error,
                    sorted_player_ids, round_start, sel >>

\* Player initialization, then the round loop is entered with round_num = 1
\* (num_rounds >= 1 was checked).
Setup ==
    /\ pc = "start"
    /\ ParamsValid(num_players, num_rounds, rated_percentage)
    /\ players' \in (IF variant = "interactive" THEN I_InitialPlayers
                                                 ELSE S_InitialPlayers)
    /\ tournament_history' = << >>
    /\ bye_player_id' = None
    /\ round_num' = 1
    /\ pc' = "round"
    /\ UNCHANGED << variant, num_players, num_rounds, rated_percentage,
                    players_to_pair, round_pairings_list, displayed_matches,
                    winners, draws, input_ok, verdict, pairing_error,
                    sorted_player_ids, result, round_start, sel >>

-----------------------------------------------------------------------------
(* A round: shuffle and sort, the pairing loop, the bye. *)

WinsKey(pl) == [ pid \in DOMAIN pl |-> pl[pid].wins ]

\* Lines 91-103 / 119-127: reset the round's locals, shuffle the ids (any
\* order), sort by wins descending.
RoundStart ==
    /\ pc = "round"
    /\ \E shuffled \in Permutations_(num_players) :
          players_to_pair' = StableSortDesc(shuffled, WinsKey(players))
    /\ round_pairings_list' = << >>
    /\ bye_player_id' = None
    /\ round_start' = players
    /\ pc' = "pair"
    /\ UNCHANGED << variant, num_players, num_rounds, rated_percentage,
                    players, round_num, tournament_history,
                    displayed_matches, winners, draws, input_ok, verdict,
                    pairing_error, sorted_player_ids, result, sel >>

\* A pairing step that records the opponent for p1 only.
played_add_one_sided(pl, p1_id, p2_id) ==
    [ pl EXCEPT ![p1_id].played = @ \cup {p2_id} ]

\* A pairing step that records nothing in the played sets.
played_add_forgotten(pl, p1_id, p2_id) == pl

\* players[p1_id]["played"].add(p2_id); players[p2_id]["played"].add(p1_id)
played_add(pl, p1_id, p2_id) ==
    [ pl EXCEPT ![p1_id].played = @ \cup {p2_id},
                ![p2_id].played = @ \cup {p1_id} ]

\* A pairing step that leaves the opponent in the working list.
remove_opponent_forgotten(rest, p2_id) == rest

\* players_to_pair.remove(p2_id)
remove_opponent(rest, p2_id) == Remove(rest, p2_id)

\* An iteration that pairs the popped head and puts it back at the head of
\* the working list.
PairIteration_head_kept(p1_id, rest, p2_id) ==
    IF rest = << >>
    THEN /\ players_to_pair' = << p1_id >> \o rest
         /\ pc' = "loop_exit"
         /\ UNCHANGED << round_pairings_list, players, pairing_error >>
    ELSE IF p2_id # None
    THEN /\ round_pairings_list' =
                Append(round_pairings_list, SortedPair(p1_id, p2_id))
         /\ players' = played_add(players, p1_id, p2_id)
         /\ players_to_pair' = << p1_id >> \o remove_opponent(rest, p2_id)
         /\ UNCHANGED << pc, pairing_error >>
    ELSE /\ pairing_error' = "no_opponent"
         /\ players_to_pair' = << p1_id >> \o rest
         /\ UNCHANGED << pc, round_pairings_list, players >>

\* One iteration of the while loop, given the selector's answer for the
\* popped head (the loop body is the same text in both files).
PairIteration(p1_id, rest, p2_id) ==
    IF rest = << >>
    THEN \* no potential opponents: put the player back and break
         /\ players_to_pair' = << p1_id >> \o rest
         /\ pc' = "loop_exit"
         /\ UNCHANGED << round_pairings_list, players, pairing_error >>
    ELSE IF p2_id # None
    THEN /\ round_pairings_list' =
                Append(round_pairings_list, SortedPair(p1_id, p2_id))
         /\ players' = played_add(players, p1_id, p2_id)
         /\ players_to_pair' = remove_opponent(rest, p2_id)
         /\ UNCHANGED << pc, pairing_error >>
    ELSE \* "Warning: Could not find opponent": put the player back
         /\ pairing_error' = "no_opponent"
         /\ players_to_pair' = << p1_id >> \o rest
         /\ UNCHANGED << pc, round_pairings_list, players >>

\* src/interactive_tournament.py lines 105-131
I_PairStep ==
    /\ variant = "interactive"
    /\ pc = "pair"
    /\ Len(players_to_pair) >= 2
    /\ LET p1_id == Head(players_to_pair)
           rest == Tail(players_to_pair)
       IN  PairIteration(p1_id, rest, find_best_opponent(p1_id, rest, players))
    /\ UNCHANGED << variant, num_players, num_rounds, rated_percentage,
                    round_num, bye_player_id, tournament_history,
                    displayed_matches, winners, draws, input_ok, verdict,
                    sorted_player_ids, result, round_start, sel >>

\* src/tournament_simulator.py lines 129-146
S_PairStep ==
    /\ variant = "simulated"
    /\ pc = "pair"
    /\ Len(players_to_pair) >= 2
    /\ LET p1_id == Head(players_to_pair)
           rest == Tail(players_to_pair)
       IN  PairIteration(p1_id, rest,
                         find_best_opponent_sim(p1_id, rest, players))
    /\ UNCHANGED << variant, num_players, num_rounds, rated_percentage,
                    round_num, bye_player_id, tournament_history,
                    displayed_matches, winners, draws, input_ok, verdict,
                    sorted_player_ids, result, round_start, sel >>

\* The code after the loop with the bye point granted (the line that both
\* files keep commented out).
AfterPairing_bye_point ==
    /\ \/ pc = "loop_exit"
       \/ pc = "pair" /\ Len(players_to_pair) < 2
    /\ bye_player_id' = IF Len(players_to_pair) = 1 THEN players_to_pair[1]
                                                    ELSE None
    /\ players' = IF Len(players_to_pair) = 1
                  THEN [ players EXCEPT ![players_to_pair[1]].wins = @ + 1 ]
                  ELSE players
    /\ pairing_error' = IF Len(players_to_pair) > 1 THEN "multiple_unpaired"
                                                    ELSE pairing_error
    /\ tournament_history' =
          [ r \in (DOMAIN tournament_history) \cup {round_num} |->
              IF r = round_num THEN round_pairings_list
                               ELSE tournament_history[r] ]
    /\ displayed_matches' =
          { SortedPair(round_pairings_list[i][1], round_pairings_list[i][2]) :
              i \in 1..Len(round_pairings_list) }
    /\ winners' = << >>
    /\ draws' = << >>
    /\ input_ok' = NoInput
    /\ verdict' = "none"
    /\ pc' = IF variant = "simulated" THEN "simulate"
             ELSE IF round_pairings_list # << >> THEN "input" ELSE "apply"
    /\ UNCHANGED << variant, num_players, num_rounds, rated_percentage,
                    round_num, players_to_pair, round_pairings_list,
                    sorted_player_ids, result, round_start, sel >>

\* Lines 134-159 / 148-169: the bye, the history entry, the displayed set.
\* The interactive driver prompts only when matches were displayed.
AfterPairing ==
    /\ \/ pc = "loop_exit"
       \/ pc = "pair" /\ Len(players_to_pair) < 2
    /\ bye_player_id' = IF Len(players_to_pair) = 1 THEN players_to_pair[1]
                                                    ELSE None
    /\ pairing_error' = IF Len(players_to_pair) > 1 THEN "multiple_unpaired"
                                                    ELSE pairing_error
    /\ tournament_history' =
          [ r \in (DOMAIN tournament_history) \cup {round_num} |->
              IF r = round_num THEN round_pairings_list
                               ELSE tournament_history[r] ]
    /\ displayed_matches' =
          { SortedPair(round_pairings_list[i][1], round_pairings_list[i][2]) :
              i \in 1..Len(round_pairings_list) }
    /\ winners' = << >>
    /\ draws' = << >>
    /\ input_ok' = NoInput
    /\ verdict' = "none"
    /\ pc' = IF variant = "simulated" THEN "simulate"
             ELSE IF round_pairings_list # << >> THEN "input" ELSE "apply"
    /\ UNCHANGED << variant, num_players, num_rounds, rated_percentage,
                    players, round_num, players_to_pair, round_pairings_list,
                    sorted_player_ids, result, round_start, sel >>

-----------------------------------------------------------------------------
(* Interactive: the result declaration is read, validated, applied. *)

\* What the two prompts can deliver within the bound: a winners list over
\* the ids 1..num_players+1 (the last is no player) and a list of draw
\* pairs as typed ("2-1" is <<2, 1>>), or a line that does not parse.
WinnerLists(n) ==
    UNION { [1..k -> 1..(num_players + 1)] : k \in 0..n }

DrawLists(n) ==
    UNION { [1..k -> (1..num_players) \X (1..num_players)] : k \in 0..n }

\* Lines 166 and 182: the two input() calls of one pass of the loop.  The
\* code reads the draws line only after the winners line has passed its
\* checks; here both lines are drawn at once and the validation ignores the
\* draws line when the winners line fails, which leaves the same state.
I_Input ==
    /\ variant = "interactive"
    /\ pc = "input"
    /\ \/ \E w \in WinnerLists(MaxDecl) :
            \E d \in DrawLists(MaxDecl - Len(w)) :
               /\ winners' = w
               /\ draws' = d
               /\ input_ok' = [ w |-> TRUE, d |-> TRUE ]
       \/ \* a winners line that is not comma-separated numbers
          /\ winners' = << >>
          /\ draws' = << >>
          /\ input_ok' = [ w |-> FALSE, d |-> TRUE ]
       \/ \* a draws line that is not 'a-b' pairs
          /\ winners' = << >>
          /\ draws' = << >>
          /\ input_ok' = [ w |-> TRUE, d |-> FALSE ]
    /\ pc' = "validate"
    /\ UNCHANGED << variant, num_players, num_rounds, rated_percentage,
                    players, round_num, players_to_pair, round_pairings_list,
                    bye_player_id, tournament_history, displayed_matches,
                    verdict, pairing_error, sorted_player_ids, result,
                    round_start, sel >>

\* A draw check that does not look the pair up in the displayed matches.
DrawCheck_no_match_check(pair, w) ==
    IF pair[1] \in Range(w) \/ pair[2] \in Range(w)
    THEN "draw_winner_conflict"
    ELSE "ok"

\* A draw check that does not compare the pair with the winners list.
DrawCheck_no_conflict_check(pair, w) ==
    IF SortedPair(pair[1], pair[2]) \notin displayed_matches
    THEN "invalid_draw_pair"
    ELSE "ok"

\* Lines 191-199: the check of one typed draw pair.
DrawCheck(pair, w) ==
    IF SortedPair(pair[1], pair[2]) \notin displayed_matches
    THEN "invalid_draw_pair"
    ELSE IF pair[1] \in Range(w) \/ pair[2] \in Range(w)
    THEN "draw_winner_conflict"
    ELSE "ok"

\* The match of displayed_matches that the scan of line 228 finds for a
\* winner (the matches of a round are disjoint, so there is at most one).
MatchesOf(wid, matches) == { m \in matches : wid = m[1] \/ wid = m[2] }

\* Lines 167-246: the outcome of one pass of the validation loop, named by
\* the message it prints; "accepted" and "accepted_with_warning" break out
\* of the loop, everything else re-prompts.
ValidationVerdict(ok, w, d) ==
    LET bad == { i \in 1..Len(d) : DrawCheck(d[i], w) # "ok" }
        canon == { SortedPair(d[i][1], d[i][2]) : i \in 1..Len(d) }
        all_players_in_results ==
            Range(w) \cup { m[1] : m \in canon } \cup { m[2] : m \in canon }
        all_players_in_matches ==
            { m[1] : m \in displayed_matches } \cup
            { m[2] : m \in displayed_matches }
        matches_with_results ==
            canon \cup UNION { IF MatchesOf(w[i], displayed_matches) = {}
                               THEN {}
                               ELSE { CHOOSE m \in MatchesOf(w[i], displayed_matches) : TRUE } :
                               i \in 1..Len(w) }
    IN  IF ~ok.w THEN "invalid_winners_input"
        ELSE IF w # << >> /\ \E i \in 1..Len(w) : w[i] \notin DOMAIN players
        THEN "invalid_player_id"
        ELSE IF w # << >> /\ bye_player_id # None /\ bye_player_id \in Range(w)
        THEN "bye_winner"
        ELSE IF ~ok.d THEN "invalid_draw_format"
        ELSE IF bad # {}
        THEN DrawCheck(d[CHOOSE i \in bad : \A j \in bad : i <= j], w)
        ELSE IF ~(all_players_in_results \subseteq all_players_in_matches)
        THEN "not_in_match"
        ELSE IF \E i \in 1..Len(w) : MatchesOf(w[i], displayed_matches) = {}
        THEN "winner_without_match"
        ELSE IF Cardinality(matches_with_results) # Cardinality(displayed_matches)
        THEN "accepted_with_warning"
        ELSE "accepted"

\* The bye message followed by `break` instead of `continue`.
Accepted_bye_breaks(v) ==
    v \in {"accepted", "accepted_with_warning", "bye_winner"}

\* The verdicts after which the loop is left (line 246).
Accepted(v) == v \in {"accepted", "accepted_with_warning"}

\* A win that is credited without the opponent's loss.
apply_win_without_loss(pl, winner_id, loser_id) ==
    [ pl EXCEPT ![winner_id].wins = @ + 1 ]

\* players[w]["wins"] += 1; players[l]["losses"] += 1
apply_win(pl, winner_id, loser_id) ==
    [ pl EXCEPT ![winner_id].wins = @ + 1, ![loser_id].losses = @ + 1 ]

\* players[a]["draws"] += 1; players[b]["draws"] += 1
apply_draw(pl, a, b) ==
    [ pl EXCEPT ![a].draws = @ + 1, ![b].draws = @ + 1 ]

\* A winners loop that does not skip the matches it has processed.
RECURSIVE ProcessWinners_no_processed_check(_, _, _, _, _)
ProcessWinners_no_processed_check(ws, matches, drawn, pl, processed_matches) ==
    IF ws = << >>
    THEN [ players |-> pl, processed_matches |-> processed_matches ]
    ELSE
        LET p1_wins_id == Head(ws)
            found == MatchesOf(p1_wins_id, { m \in matches : m \notin drawn })
        IN  IF found = {}
            THEN ProcessWinners_no_processed_check(Tail(ws), matches, drawn,
                                                   pl, processed_matches)
            ELSE
                LET match_pair == CHOOSE m \in found : TRUE
                    other == IF p1_wins_id = match_pair[1] THEN match_pair[2]
                                                           ELSE match_pair[1]
                IN  ProcessWinners_no_processed_check(
                        Tail(ws), matches, drawn,
                        apply_win(pl, p1_wins_id, other),
                        processed_matches \cup {match_pair})

\* Lines 253-273: for each declared winner, the first displayed match that
\* is neither processed nor drawn and has the winner as a member.
RECURSIVE ProcessWinners(_, _, _, _, _)
ProcessWinners(ws, matches, drawn, pl, processed_matches) ==
    IF ws = << >>
    THEN [ players |-> pl, processed_matches |-> processed_matches ]
    ELSE
        LET p1_wins_id == Head(ws)
            open == { m \in matches : m \notin processed_matches
                                      /\ m \notin drawn }
            found == MatchesOf(p1_wins_id, open)
        IN  IF found = {}
            THEN ProcessWinners(Tail(ws), matches, drawn, pl, processed_matches)
            ELSE
                LET match_pair == CHOOSE m \in found : TRUE
                    other == IF p1_wins_id = match_pair[1] THEN match_pair[2]
                                                           ELSE match_pair[1]
                IN  ProcessWinners(Tail(ws), matches, drawn,
                                   apply_win(pl, p1_wins_id, other),
                                   processed_matches \cup {match_pair})

\* Lines 276-281: each drawn pair not yet processed.
RECURSIVE ProcessDraws(_, _, _)
ProcessDraws(ds, pl, processed_matches) ==
    IF ds = << >>
    THEN [ players |-> pl, processed_matches |-> processed_matches ]
    ELSE
        LET match_pair == SortedPair(Head(ds)[1], Head(ds)[2])
        IN  IF match_pair \notin processed_matches
            THEN ProcessDraws(Tail(ds),
                              apply_draw(pl, Head(ds)[1], Head(ds)[2]),
                              processed_matches \cup {match_pair})
            ELSE ProcessDraws(Tail(ds), pl, processed_matches)

\* Lines 249-281 on the accepted declaration.
ApplyResults(ws, ds, matches, pl) ==
    LET after_winners == ProcessWinners(ws, matches, Range(ds), pl, {})
    IN  ProcessDraws(ds, after_winners.players,
                     after_winners.processed_matches)

\* A validation that credits the declared winners before it has checked
\* the draws, so that a rejection leaves them applied.
I_Validate_partial_commit ==
    /\ variant = "interactive"
    /\ pc = "validate"
    /\ LET v == ValidationVerdict(input_ok, winners, draws)
       IN  /\ verdict' = v
           /\ IF Accepted(v)
              THEN /\ pc' = "apply"
                   /\ draws' = [ i \in 1..Len(draws) |->
                                   SortedPair(draws[i][1], draws[i][2]) ]
                   /\ UNCHANGED << winners, players >>
              ELSE /\ pc' = "rejected"
                   /\ winners' = << >>
                   /\ draws' = << >>
                   /\ players' =
                        IF v \in {"invalid_draw_pair", "draw_winner_conflict"}
                        THEN ProcessWinners(winners, displayed_matches, {},
                                            players, {}).players
                        ELSE players
    /\ input_ok' = NoInput
    /\ UNCHANGED << variant, num_players, num_rounds, rated_percentage,
                    round_num, players_to_pair, round_pairings_list,
                    bye_player_id, tournament_history, displayed_matches,
                    pairing_error, sorted_player_ids, result, round_start,
                    sel >>

\* A validation that leaves the loop on a rejected declaration as well.
I_Validate_reject_advances ==
    /\ variant = "interactive"
    /\ pc = "validate"
    /\ LET v == ValidationVerdict(input_ok, winners, draws)
       IN  /\ verdict' = v
           /\ pc' = "apply"
           /\ IF Accepted(v)
              THEN /\ draws' = [ i \in 1..Len(draws) |->
                                   SortedPair(draws[i][1], draws[i][2]) ]
                   /\ UNCHANGED winners
              ELSE /\ winners' = << >>
                   /\ draws' = << >>
    /\ input_ok' = NoInput
    /\ UNCHANGED << variant, num_players, num_rounds, rated_percentage,
                    players, round_num, players_to_pair, round_pairings_list,
                    bye_player_id, tournament_history, displayed_matches,
                    pairing_error, sorted_player_ids, result, round_start,
                    sel >>

\* One pass of the while True loop after the input: either a message and
\* `continue` (the next pass overwrites winners and draws before it reads
\* them, so they are cleared here), or `break` with winners and the
\* canonical draws list.
I_Validate ==
    /\ variant = "interactive"
    /\ pc = "validate"
    /\ LET v == ValidationVerdict(input_ok, winners, draws)
       IN  /\ verdict' = v
           /\ IF Accepted(v)
              THEN /\ pc' = "apply"
                   /\ draws' = [ i \in 1..Len(draws) |->
                                   SortedPair(draws[i][1], draws[i][2]) ]
                   /\ UNCHANGED winners
              ELSE /\ pc' = "rejected"
                   /\ winners' = << >>
                   /\ draws' = << >>
    /\ input_ok' = NoInput
    /\ UNCHANGED << variant, num_players, num_rounds, rated_percentage,
                    players, round_num, players_to_pair, round_pairings_list,
                    bye_player_id, tournament_history, displayed_matches,
                    pairing_error, sorted_player_ids, result, round_start,
                    sel >>

\* `continue`: back to the first prompt of the same round.
I_Reprompt ==
    /\ variant = "interactive"
    /\ pc = "rejected"
    /\ pc' = "input"
    /\ verdict' = "none"
    /\ UNCHANGED << variant, num_players, num_rounds, rated_percentage,
                    players, round_num, players_to_pair, round_pairings_list,
                    bye_player_id, tournament_history, displayed_matches,
                    winners, draws, input_ok, pairing_error,
                    sorted_player_ids, result, round_start, sel >>

\* The end of a round's body: the next round, or the end of the loop.
NextRound ==
    IF round_num < num_rounds
    THEN round_num' = round_num + 1 /\ pc' = "round"
    ELSE round_num' = round_num /\ pc' = "finish"

I_Apply ==
    /\ variant = "interactive"
    /\ pc = "apply"
    /\ players' = ApplyResults(winners, draws, displayed_matches, players).players
    /\ winners' = << >>
    /\ draws' = << >>
    /\ NextRound
    /\ UNCHANGED << variant, num_players, num_rounds, rated_percentage,
                    players_to_pair, round_pairings_list, bye_player_id,
                    tournament_history, displayed_matches, input_ok, verdict,
                    pairing_error, sorted_player_ids, result, round_start,
                    sel >>

-----------------------------------------------------------------------------
(* Simulated: one sampled outcome per displayed match. *)

SimRating(pl, pid) ==
    IF pl[pid].rating # None THEN pl[pid].rating
                             ELSE DEFAULT_UNRATED_SIM_RATING

\* simulate_match_result: the outcomes random.choices can return, those of
\* positive weight (weights in hundredths).
simulate_match_result(p1_id, p2_id, players_data) ==
    LET rating_diff == SimRating(players_data, p1_id) - SimRating(players_data, p2_id)
        prob_p1_win == IF Abs(rating_diff) > 300
                       THEN (IF rating_diff > 0 THEN 80 ELSE 10)
                       ELSE IF Abs(rating_diff) > 100
                       THEN (IF rating_diff > 0 THEN 65 ELSE 20)
                       ELSE 40
        prob_draw0 == IF Abs(rating_diff) > 300 THEN 10
                      ELSE IF Abs(rating_diff) > 100 THEN 15
                      ELSE 20
        prob_p2_win0 == 100 - prob_p1_win - prob_draw0
        prob_p2_win == IF prob_p2_win0 < 0 THEN 0 ELSE prob_p2_win0
        prob_draw == IF prob_p2_win0 < 0 THEN 100 - prob_p1_win ELSE prob_draw0
    IN  { o \in {p1_id, p2_id, DrawOutcome} :
            \/ o = p1_id /\ prob_p1_win > 0
            \/ o = p2_id /\ prob_p2_win > 0
            \/ o = DrawOutcome /\ prob_draw > 0 }

\* An update that does not know the 'draw' outcome.
ApplySimResult_draw_unknown(pl, p1, p2, res) ==
    IF res = p1 THEN apply_win(pl, p1, p2)
    ELSE IF res = p2 THEN apply_win(pl, p2, p1)
    ELSE pl

\* Lines 180-193: the update for one match and its result.
ApplySimResult(pl, p1, p2, res) ==
    IF res = p1 THEN apply_win(pl, p1, p2)
    ELSE IF res = p2 THEN apply_win(pl, p2, p1)
    ELSE IF res = DrawOutcome THEN apply_draw(pl, p1, p2)
    ELSE pl

\* Lines 176-193: the loop over displayed_matches (the updates of distinct
\* matches commute, so the set's iteration order does not matter).
RECURSIVE SimulateAll(_, _, _)
SimulateAll(matches, res, pl) ==
    IF matches = {} THEN pl
    ELSE LET m == CHOOSE x \in matches : TRUE
         IN  SimulateAll(matches \ {m}, res,
                         ApplySimResult(pl, m[1], m[2], res[m]))

S_Simulate ==
    /\ variant = "simulated"
    /\ pc = "simulate"
    /\ \E res \in [displayed_matches ->
                     (1..num_players) \cup {DrawOutcome}] :
          /\ \A m \in displayed_matches :
                res[m] \in simulate_match_result(m[1], m[2], players)
          /\ players' = SimulateAll(displayed_matches, res, players)
    /\ NextRound
    /\ UNCHANGED << variant, num_players, num_rounds, rated_percentage,
                    players_to_pair, round_pairings_list, bye_player_id,
                    tournament_history, displayed_matches, winners, draws,
                    input_ok, verdict, pairing_error, sorted_player_ids,
                    result, round_start, sel >>

-----------------------------------------------------------------------------
(* The final standings. *)

\* interactive line 294: key = wins
I_FinalKey(pl) == [ pid \in DOMAIN pl |-> pl[pid].wins ]

\* simulated lines 201-205: key = wins + 0.5 * draws, here doubled
S_FinalKey(pl) == [ pid \in DOMAIN pl |-> 2 * pl[pid].wins + pl[pid].draws ]

I_Finish ==
    /\ variant = "interactive"
    /\ pc = "finish"
    /\ sorted_player_ids' = StableSortDesc(PlayerKeys, I_FinalKey(players))
    /\ result' = "dict"
    /\ pc' = "done"
    /\ UNCHANGED << variant, num_players, num_rounds, rated_percentage,
                    players, round_num, players_to_pair, round_pairings_list,
                    bye_player_id, tournament_history, displayed_matches,
                    winners, draws, input_ok, verdict, pairing_error,
                    round_start, sel >>

S_Finish ==
    /\ variant = "simulated"
    /\ pc = "finish"
    /\ sorted_player_ids' = StableSortDesc(PlayerKeys, S_FinalKey(players))
    /\ result' = "dict"
    /\ pc' = "done"
    /\ UNCHANGED << variant, num_players, num_rounds, rated_percentage,
                    players, round_num, players_to_pair, round_pairings_list,
                    bye_player_id, tournament_history, displayed_matches,
                    winners, draws, input_ok, verdict, pairing_error,
                    round_start, sel >>

Next ==
    \/ SetupError
    \/ Setup
    \/ RoundStart
    \/ I_PairStep
    \/ S_PairStep
    \/ AfterPairing
    \/ I_Input
    \/ I_Validate
    \/ I_Reprompt
    \/ I_Apply
    \/ S_Simulate
    \/ I_Finish
    \/ S_Finish

Spec == Init /\ [][Next]_vars

-----------------------------------------------------------------------------
(* Stand-alone calls of the two selectors on arbitrary standings. *)

\* Candidate lists: the orders of the subsets of the ids 2..SelPlayers (the
\* subject is id 1 and is never its own candidate).
SelCandidateLists ==
    { c \in UNION { [1..k -> 2..SelPlayers] : k \in 0..(SelPlayers - 1) } :
        \A i, j \in 1..Len(c) : i # j => c[i] # c[j] }

\* The arguments of one call: a candidate list, wins for the subject and
\* the candidates, and the subject's played set.
SelInput(c, w, pl) ==
    [ subject |-> 1, candidates |-> c, called |-> FALSE,
      out_interactive |-> None, out_simulated |-> None,
      data |-> [ i \in {1} \cup Range(c) |->
                   [ wins |-> w[i], played |-> IF i = 1 THEN pl ELSE {} ] ] ]

SelInit ==
    /\ \E c \in SelCandidateLists :
          \E w \in [ {1} \cup Range(c) -> 0..SelMaxWins ] :
             \E pl \in SUBSET (2..SelPlayers) :
                sel = SelInput(c, w, pl)
    /\ variant = "none"
    /\ num_players = 0
    /\ num_rounds = 0
    /\ rated_percentage = 0
    /\ pc = "sel"
    /\ players = << >>
    /\ round_num = 0
    /\ players_to_pair = << >>
    /\ round_pairings_list = << >>
    /\ bye_player_id = None
    /\ tournament_history = << >>
    /\ displayed_matches = {}
    /\ winners = << >>
    /\ draws = << >>
    /\ input_ok = NoInput
    /\ verdict = "none"
    /\ pairing_error = "none"
    /\ sorted_player_ids = << >>
    /\ result = "running"
    /\ round_start = << >>

SelRest ==
    UNCHANGED << variant, num_players, num_rounds, rated_percentage, pc,
                 players, round_num, players_to_pair, round_pairings_list,
                 bye_player_id, tournament_history, displayed_matches,
                 winners, draws, input_ok, verdict, pairing_error,
                 sorted_player_ids, result, round_start >>

\* One call of each file's find_best_opponent on the same arguments.
SelCall ==
    /\ pc = "sel"
    /\ ~sel.called
    /\ sel' = [ sel EXCEPT
                  !.called = TRUE,
                  !.out_interactive =
                      find_best_opponent(sel.subject, sel.candidates, sel.data),
                  !.out_simulated =
                      find_best_opponent_sim(sel.subject, sel.candidates,
                                             sel.data) ]
    /\ SelRest

SelNext == SelCall

SelSpec == SelInit /\ [][SelNext]_vars

-----------------------------------------------------------------------------
(* The scenario of five competitors and two rounds: the same drivers, started *)
(* with these parameters (valid ones, so the setup error does not occur).     *)

FiveInit ==
    /\ variant \in {"interactive", "simulated"}
    /\ num_players = 5
    /\ num_rounds = 2
    /\ rated_percentage = 100
    /\ pc = "start"
    /\ players = << >>
    /\ round_num = 0
    /\ players_to_pair = << >>
    /\ round_pairings_list = << >>
    /\ bye_player_id = None
    /\ tournament_history = << >>
    /\ displayed_matches = {}
    /\ winners = << >>
    /\ draws = << >>
    /\ input_ok = NoInput
    /\ verdict = "none"
    /\ pairing_error = "none"
    /\ sorted_player_ids = << >>
    /\ result = "running"
    /\ round_start = << >>
    /\ sel = << >>

FiveNext ==
    \/ Setup
    \/ RoundStart
    \/ I_PairStep
    \/ S_PairStep
    \/ AfterPairing
    \/ I_Input
    \/ I_Validate
    \/ I_Reprompt
    \/ I_Apply
    \/ S_Simulate
    \/ I_Finish
    \/ S_Finish

FiveSpec == FiveInit /\ [][FiveNext]_vars

-----------------------------------------------------------------------------
(* Six competitors and two rounds of the simulated driver: the smallest    *)
(* tournament in which the greedy pairing loop can leave two competitors   *)
(* who have played each other as the last pair.                            *)

SixInit ==
    /\ variant = "simulated"
    /\ num_players = 6
    /\ num_rounds = 2
    /\ rated_percentage = 100
    /\ pc = "start"
    /\ players = << >>
    /\ round_num = 0
    /\ players_to_pair = << >>
    /\ round_pairings_list = << >>
    /\ bye_player_id = None
    /\ tournament_history = << >>
    /\ displayed_matches = {}
    /\ winners = << >>
    /\ draws = << >>
    /\ input_ok = NoInput
    /\ verdict = "none"
    /\ pairing_error = "none"
    /\ sorted_player_ids = << >>
    /\ result = "running"
    /\ round_start = << >>
    /\ sel = << >>

SixNext ==
    \/ Setup
    \/ RoundStart
    \/ S_PairStep
    \/ AfterPairing
    \/ S_Simulate
    \/ S_Finish

SixSpec == SixInit /\ [][SixNext]_vars

-----------------------------------------------------------------------------
(* The pairing loop under fairness: both drivers are sequential programs,  *)
(* so an iteration of the loop that can run does run, and so does the code *)
(* after the loop.                                                         *)

PairFairSpec ==
    /\ Spec
    /\ WF_vars(I_PairStep)
    /\ WF_vars(S_PairStep)
    /\ WF_vars(AfterPairing)

-----------------------------------------------------------------------------
(* The simulated driver after its player initialization (lines 99-116),    *)
(* with rated and unrated players whose ratings reach every branch of      *)
(* simulate_match_result.                                                  *)

\* Ratings after setup: None, or a value of random.randint(1000, 2000).
\* With the default of 1400 for None the differences are 100, 300 and 400.
SimRatings == {None, 1500, 1800}

SimInit ==
    /\ variant = "simulated"
    /\ num_players \in 2..MaxPlayers
    /\ num_rounds \in 1..MaxRounds
    /\ rated_percentage = 50
    /\ pc = "round"
    /\ players \in [ 1..num_players -> { NewPlayer(r) : r \in SimRatings } ]
    /\ round_num = 1
    /\ players_to_pair = << >>
    /\ round_pairings_list = << >>
    /\ bye_player_id = None
    /\ tournament_history = << >>
    /\ displayed_matches = {}
    /\ winners = << >>
    /\ draws = << >>
    /\ input_ok = NoInput
    /\ verdict = "none"
    /\ pairing_error = "none"
    /\ sorted_player_ids = << >>
    /\ result = "running"
    /\ round_start = << >>
    /\ sel = << >>

SimNext ==
    \/ RoundStart
    \/ S_PairStep
    \/ AfterPairing
    \/ S_Simulate
    \/ S_Finish

SimSpec == SimInit /\ [][SimNext]_vars

-----------------------------------------------------------------------------
(* The drivers under fairness.  Both are sequential programs: whatever     *)
(* statement is next runs.  Only input() waits, for the person at the      *)
(* terminal; of that person it is assumed that, asked again and again for  *)
(* a round's results, they type a declaration that passes the validation.  *)

\* Every step of the program except the two input() calls.
ProgramStep ==
    \/ SetupError
    \/ Setup
    \/ RoundStart
    \/ I_PairStep
    \/ S_PairStep
    \/ AfterPairing
    \/ I_Validate
    \/ I_Reprompt
    \/ I_Apply
    \/ S_Simulate
    \/ I_Finish
    \/ S_Finish

\* The two lines typed make a declaration that the validation accepts.
I_InputAcceptable ==
    /\ I_Input
    /\ Accepted(ValidationVerdict(input_ok', winners', draws'))

LiveSpec ==
    /\ Spec
    /\ WF_vars(ProgramStep)
    /\ SF_vars(I_InputAcceptable)

-----------------------------------------------------------------------------
(* Properties. *)

\* The positions at which the round's pairing is complete and its results
\* are not yet applied.
PairedPcs == {"input", "validate", "rejected", "apply", "simulate"}

\* How often an id occurs in the round's pairings and as its bye.
Occurrences(pid) ==
    Cardinality({ i \in 1..Len(round_pairings_list) :
                    round_pairings_list[i][1] = pid }) +
    Cardinality({ i \in 1..Len(round_pairings_list) :
                    round_pairings_list[i][2] = pid }) +
    (IF bye_player_id = pid THEN 1 ELSE 0)

\* The ids that play in the round.
RoundMembers ==
    { round_pairings_list[i][1] : i \in 1..Len(round_pairings_list) } \cup
    { round_pairings_list[i][2] : i \in 1..Len(round_pairings_list) }

\* C1: once a round of either variant is paired, it has floor(N/2)
\* pairings and N mod 2 byes, and every id occurs exactly once across the
\* pairings and the bye.
C1_PairingComplete ==
    pc \in PairedPcs =>
        /\ Len(round_pairings_list) = num_players \div 2
        /\ (bye_player_id # None) <=> (num_players % 2 = 1)
        /\ bye_player_id # None => bye_player_id \in 1..num_players
        /\ \A pid \in 1..num_players : Occurrences(pid) = 1
        /\ RoundMembers \subseteq 1..num_players

\* A second round of three players is paired: one pairing and one bye.
C1_Witness ==
    /\ pc \in PairedPcs
    /\ round_num = 2
    /\ num_players = 3
    /\ bye_player_id # None
    /\ Len(round_pairings_list) = 1

\* The result C2 asks of a selector call: None for no candidates, else the
\* earliest candidate of minimal win difference among the never-played
\* candidates, or among all candidates when every one was played.
SelExpected(subject, candidates, data) ==
    IF candidates = << >> THEN None
    ELSE
        LET diff(i) == Abs(data[candidates[i]].wins - data[subject].wins)
            fresh == { i \in 1..Len(candidates) :
                         candidates[i] \notin data[subject].played }
            pool == IF fresh # {} THEN fresh ELSE 1..Len(candidates)
            best == CHOOSE i \in pool :
                       \A j \in pool : diff(i) < diff(j)
                                       \/ (diff(i) = diff(j) /\ i <= j)
        IN  candidates[best]

\* C2: either file's find_best_opponent returns None for an empty candidate
\* list, else the earliest never-played candidate of minimal win
\* difference, else (all played) the earliest candidate of minimal win
\* difference.
C2_SelectorCorrect ==
    sel.called =>
        /\ sel.out_interactive
              = SelExpected(sel.subject, sel.candidates, sel.data)
        /\ sel.out_simulated
              = SelExpected(sel.subject, sel.candidates, sel.data)

\* A call that passes over a played candidate of strictly smaller win
\* difference for a never-played one.
C2_Witness ==
    /\ sel.called
    /\ sel.out_interactive # None
    /\ sel.out_interactive \notin sel.data[sel.subject].played
    /\ \E i \in 1..Len(sel.candidates) :
          /\ sel.candidates[i] \in sel.data[sel.subject].played
          /\ Abs(sel.data[sel.candidates[i]].wins - sel.data[sel.subject].wins)
               < Abs(sel.data[sel.out_interactive].wins
                     - sel.data[sel.subject].wins)

\* Every pair of a list is in both members' played sets.
AllInPlayed(pairs) ==
    \A i \in 1..Len(pairs) :
        /\ pairs[i][2] \in players[pairs[i][1]].played
        /\ pairs[i][1] \in players[pairs[i][2]].played

PlayedSymmetric ==
    \A a \in DOMAIN players : \A b \in DOMAIN players :
        b \in players[a].played <=> a \in players[b].played

\* The pairs formed so far are in the played sets, from the state right
\* after the pairing step on.
C3_FormedPairsPlayed ==
    /\ pc \in {"pair", "loop_exit"} \cup PairedPcs =>
          AllInPlayed(round_pairings_list)
    /\ \A r \in DOMAIN tournament_history :
          AllInPlayed(tournament_history[r])
    /\ PlayedSymmetric

\* C3: a pairing (a,b) is in played(a) and played(b) from the moment it is
\* formed, no id ever leaves a played set, and played is symmetric in
\* every reachable state.
C3_PlayedSymmetricMonotone ==
    /\ []C3_FormedPairsPlayed
    /\ [][ \A a \in (DOMAIN players) \cap (DOMAIN players') :
              players[a].played \subseteq players'[a].played ]_vars

\* A pair of round 2 is formed and no result of round 2 is known yet, while
\* a different round-1 opponent is still in the played set.
C3_Witness ==
    /\ pc = "pair"
    /\ round_num = 2
    /\ Len(round_pairings_list) = 1
    /\ \E a \in DOMAIN players : Cardinality(players[a].played) = 2

\* A declaration names an id that is in no pairing of the round, as a
\* winner or inside a typed draw pair.
RefsNonMember(w, d) ==
    \/ \E i \in 1..Len(w) : w[i] \notin RoundMembers
    \/ \E i \in 1..Len(d) : d[i][1] \notin RoundMembers
                            \/ d[i][2] \notin RoundMembers

Scores(pl) ==
    [ pid \in DOMAIN pl |->
        << pl[pid].wins, pl[pid].losses, pl[pid].draws >> ]

\* C4: (interactive) a declaration that names a competitor of no pairing of
\* the round is rejected, and reading, rejecting and re-requesting a
\* declaration leaves every competitor's wins, losses and draws unchanged.
C4_RejectionLeavesStandings ==
    [][ /\ (pc = "validate" /\ RefsNonMember(winners, draws))
             => (pc' = "rejected" /\ ~Accepted(verdict'))
        /\ (pc \in {"input", "validate", "rejected"} /\ pc' # "apply")
             => Scores(players') = Scores(players)
        /\ (pc = "validate" /\ pc' = "apply")
             => Scores(players') = Scores(players) ]_vars

\* The bye of a second round was declared a winner and rejected, after a
\* first round that changed the standings.
C4_Witness ==
    /\ pc = "rejected"
    /\ verdict = "bye_winner"
    /\ round_num = 2
    /\ \E pid \in DOMAIN players : players[pid].wins = 1

\* What a step adds to a competitor's wins, losses and draws.
Delta(pid) ==
    << players'[pid].wins - players[pid].wins,
       players'[pid].losses - players[pid].losses,
       players'[pid].draws - players[pid].draws >>

\* The step resolves match m decisively: one member +1 win, the other +1
\* loss, nothing else for the two.
Decisive(m) ==
    \/ Delta(m[1]) = << 1, 0, 0 >> /\ Delta(m[2]) = << 0, 1, 0 >>
    \/ Delta(m[1]) = << 0, 1, 0 >> /\ Delta(m[2]) = << 1, 0, 0 >>

\* The step resolves match m as drawn: +1 draw for both, nothing else.
Drawn(m) ==
    Delta(m[1]) = << 0, 0, 1 >> /\ Delta(m[2]) = << 0, 0, 1 >>

\* A declaration gives match m a winner or a draw.
Declared(m, w, d) ==
    \/ m[1] \in Range(w)
    \/ m[2] \in Range(w)
    \/ \E i \in 1..Len(d) : SortedPair(d[i][1], d[i][2]) = m

\* C5: (interactive) an accepted and applied declaration gives every
\* pairing of the round exactly one outcome, and a declaration that leaves a
\* pairing without a declared winner or draw is not accepted.
C5_EveryPairingOneOutcome ==
    [][ /\ (pc = "validate" /\ \E m \in displayed_matches :
                                  ~Declared(m, winners, draws))
             => pc' = "rejected"
        /\ (variant = "interactive" /\ pc = "apply")
             => \A m \in displayed_matches : Decisive(m) \/ Drawn(m) ]_vars

RECURSIVE SumUpTo(_, _)
SumUpTo(f, n) == IF n = 0 THEN 0 ELSE f[n] + SumUpTo(f, n - 1)

TotalWins(pl) == SumUpTo([ i \in DOMAIN pl |-> pl[i].wins ], Len(pl))

TotalLosses(pl) == SumUpTo([ i \in DOMAIN pl |-> pl[i].losses ], Len(pl))

TotalDraws(pl) == SumUpTo([ i \in DOMAIN pl |-> pl[i].draws ], Len(pl))

C6_Balanced ==
    /\ TotalWins(players) = TotalLosses(players)
    /\ TotalDraws(players) % 2 = 0

\* What C6 asks of one step of the result application.
C6_RoundStep ==
    pc \in {"apply", "simulate"} =>
        /\ TotalWins(players') - TotalWins(players)
             = Cardinality({ m \in displayed_matches : Decisive(m) })
        /\ TotalLosses(players') - TotalLosses(players)
             = Cardinality({ m \in displayed_matches : Decisive(m) })
        /\ TotalDraws(players') - TotalDraws(players)
             = 2 * Cardinality({ m \in displayed_matches : Drawn(m) })
        /\ (pc = "apply" /\ num_players = 4
              /\ Len(winners) = 1 /\ Len(draws) = 1)
             => /\ Cardinality({ i \in 1..4 : Delta(i) = << 1, 0, 0 >> }) = 1
                /\ Cardinality({ i \in 1..4 : Delta(i) = << 0, 1, 0 >> }) = 1
                /\ Cardinality({ i \in 1..4 : Delta(i) = << 0, 0, 1 >> }) = 2

\* C6: in both variants, a round's result step adds as many wins as it
\* resolves pairings decisively and as many losses, and adds twice as many
\* draws as it resolves pairings as drawn, so that the wins always sum to
\* the losses and the draws to an even number; with four competitors, one
\* declared winner and the other pairing declared drawn, one competitor
\* gains a win, one a loss and two a draw.
C6_ScoreConservation ==
    /\ []C6_Balanced
    /\ [][C6_RoundStep]_vars

\* Four competitors, one interactive round, finished with one win, one
\* loss and two draws.
C6_Witness ==
    /\ variant = "interactive"
    /\ pc = "done"
    /\ num_players = 4
    /\ num_rounds = 1
    /\ Cardinality({ i \in 1..4 : players[i].wins = 1 }) = 1
    /\ Cardinality({ i \in 1..4 : players[i].losses = 1 }) = 1
    /\ Cardinality({ i \in 1..4 : players[i].draws = 1 }) = 2

\* The opponent of a competitor in the round's pairings (None for the bye).
OpponentOf(pid) ==
    LET mine == { i \in 1..Len(round_pairings_list) :
                    pid = round_pairings_list[i][1]
                    \/ pid = round_pairings_list[i][2] }
    IN  IF mine = {} THEN None
        ELSE LET pr == round_pairings_list[CHOOSE i \in mine : TRUE]
             IN  IF pid = pr[1] THEN pr[2] ELSE pr[1]

\* C7: (interactive) applying an accepted declaration adds exactly one win
\* to every id of its winners list and exactly one loss to that id's
\* opponent of the round.
C7_EveryDeclaredWinnerScores ==
    [][ (variant = "interactive" /\ pc = "apply") =>
          \A i \in 1..Len(winners) :
             /\ players'[winners[i]].wins = players[winners[i]].wins + 1
             /\ OpponentOf(winners[i]) # None
             /\ players'[OpponentOf(winners[i])].losses
                  = players[OpponentOf(winners[i])].losses + 1 ]_vars

\* C8: the bye of a round is never in an accepted winners list, its wins,
\* losses, draws and played set stay what they were when the round
\* started, and an even number of competitors has no bye.
C8_ByeUntouched ==
    /\ (pc = "apply" /\ bye_player_id # None)
          => bye_player_id \notin Range(winners)
    /\ (bye_player_id # None /\ pc \in PairedPcs \cup {"round", "finish", "done"})
          => players[bye_player_id] = round_start[bye_player_id]
    /\ (pc # "start" /\ num_players % 2 = 0) => bye_player_id = None

\* The second round is over; its bye played in round 1 and other
\* competitors have scored in round 2.
C8_Witness ==
    /\ pc = "finish"
    /\ round_num = 2
    /\ bye_player_id # None
    /\ players[bye_player_id].played # {}
    /\ \E pid \in DOMAIN players :
          players[pid].wins > round_start[pid].wins

Points2(pid) == 2 * players[pid].wins + players[pid].draws

\* C9: the final standings of either variant list the competitors by
\* descending wins + 0.5 * draws, equal keys by ascending id.
C9_FinalOrderByPoints ==
    pc = "done" =>
        /\ Len(sorted_player_ids) = num_players
        /\ \A i \in 1..Len(sorted_player_ids) :
              \A j \in 1..Len(sorted_player_ids) :
                 i < j =>
                    \/ Points2(sorted_player_ids[i]) > Points2(sorted_player_ids[j])
                    \/ /\ Points2(sorted_player_ids[i]) = Points2(sorted_player_ids[j])
                       /\ sorted_player_ids[i] < sorted_player_ids[j]

\* The parameters a driver must refuse.
BadParams ==
    \/ num_players < 2
    \/ num_rounds < 1
    \/ rated_percentage < 0
    \/ rated_percentage > 100

\* C10: with a competitor count below 2, a round count below 1 or a rated
\* fraction outside [0,1] the driver returns None without creating a
\* competitor, forming a pairing or running a round; with valid parameters
\* a finished tournament has run exactly num_rounds rounds.
C10_SetupErrorsStop ==
    /\ BadParams =>
          /\ pc \in {"start", "failed"}
          /\ players = << >>
          /\ round_pairings_list = << >>
          /\ tournament_history = << >>
          /\ round_num = 0
          /\ result \in {"running", "None"}
    /\ pc = "failed" => (BadParams /\ result = "None")
    /\ (pc # "start" /\ ~BadParams) => pc # "failed" /\ result # "None"
    /\ pc = "done" =>
          /\ result = "dict"
          /\ round_num = num_rounds
          /\ DOMAIN tournament_history = 1..num_rounds
    /\ round_num <= num_rounds

\* A single competitor with otherwise valid parameters was refused.
C10_Witness ==
    /\ pc = "failed"
    /\ result = "None"
    /\ num_players = 1
    /\ num_rounds >= 1
    /\ rated_percentage \in 0..100

\* The pairs of a list, as a set.
PairsOf(pairs) == { pairs[i] : i \in 1..Len(pairs) }

\* The ids that are in no pair of a list.
Unpaired(pairs) ==
    { pid \in 1..num_players :
        \A i \in 1..Len(pairs) : pid # pairs[i][1] /\ pid # pairs[i][2] }

\* The pair was played before the current round started.
PlayedBefore(pair) == pair[2] \in round_start[pair[1]].played

\* C11: with five competitors and two rounds, every paired round has
\* exactly two pairings and one bye, and no pairing of round 2 is a
\* pairing of round 1: its members had not played each other.
C11_FiveTwoRoundsNoRematch ==
    /\ pc \in PairedPcs =>
          /\ Len(round_pairings_list) = 2
          /\ bye_player_id # None
          /\ Unpaired(round_pairings_list) = {bye_player_id}
    /\ \A r \in DOMAIN tournament_history :
          /\ Len(tournament_history[r]) = 2
          /\ Cardinality(PairsOf(tournament_history[r])) = 2
          /\ Cardinality(Unpaired(tournament_history[r])) = 1
    /\ (pc \in PairedPcs /\ round_num = 2) =>
          \A i \in 1..Len(round_pairings_list) :
             /\ round_pairings_list[i] \notin PairsOf(tournament_history[1])
             /\ ~PlayedBefore(round_pairings_list[i])

\* The second round of five competitors is paired after a first round that
\* gave somebody a win, and its bye played in round 1.
C11_Witness ==
    /\ num_players = 5
    /\ pc \in PairedPcs
    /\ round_num = 2
    /\ Len(round_pairings_list) = 2
    /\ bye_player_id # None
    /\ round_start[bye_player_id].played # {}
    /\ \E pid \in DOMAIN round_start : round_start[pid].wins = 1

\* The bye of a round of the history (None when everybody was paired).
ByeOfRound(r) ==
    IF Unpaired(tournament_history[r]) = {} THEN None
    ELSE CHOOSE pid \in Unpaired(tournament_history[r]) : TRUE

\* All competitors had the same number of wins when the round started.
TiedAtRoundStart ==
    \A a \in DOMAIN round_start : \A b \in DOMAIN round_start :
        round_start[a].wins = round_start[b].wins

\* C12: with an odd number of competitors that all have the same number of
\* wins at the start of round 2, the bye of round 2 is not the competitor
\* that had the bye of round 1.
C12_ByeRotatesWhenTied ==
    (pc \in PairedPcs /\ round_num = 2 /\ num_players % 2 = 1
       /\ TiedAtRoundStart)
      => bye_player_id # ByeOfRound(1)

\* The pairs of distinct competitors that had not played each other when
\* the round started.
FreshPairs ==
    { pr \in (1..num_players) \X (1..num_players) :
        pr[1] < pr[2] /\ ~PlayedBefore(pr) }

\* A complete pairing of never-played pairs exists: floor(N/2) disjoint
\* pairs out of FreshPairs.
FreshCompletePairingExists ==
    \E M \in SUBSET FreshPairs :
        /\ Cardinality(M) = num_players \div 2
        /\ \A x \in M : \A y \in M :
              x # y => {x[1], x[2]} \cap {y[1], y[2]} = {}

\* C15: the pairing of a round contains a pair that had already been
\* played before the round only if no complete pairing of never-played
\* pairs exists.
C15_RematchOnlyIfUnavoidable ==
    (pc \in PairedPcs /\ \E i \in 1..Len(round_pairings_list) :
                            PlayedBefore(round_pairings_list[i]))
      => ~FreshCompletePairingExists

\* Some declared winner is a member of some typed draw pair.
WinnerInDraw(w, d) ==
    \E i \in 1..Len(d) : d[i][1] \in Range(w) \/ d[i][2] \in Range(w)

\* What C13 asks of a validation step and of an application step.
C13_Step ==
    /\ (pc = "validate" /\ WinnerInDraw(winners, draws))
          => (pc' = "rejected" /\ ~Accepted(verdict'))
    /\ (variant = "interactive" /\ pc = "apply")
          => \A pid \in DOMAIN players :
                ~(Delta(pid)[1] + Delta(pid)[2] > 0 /\ Delta(pid)[3] > 0)

\* C13: (interactive) a declaration in which a declared winner is a member
\* of a declared draw pair is rejected, so an accepted declaration has no
\* such competitor, and applying it gives no competitor both a win or loss
\* and a draw in one round.
C13_WinnerInDrawRejected ==
    /\ [](pc = "apply" => ~WinnerInDraw(winners, draws))
    /\ [][C13_Step]_vars

\* A declaration was rejected with the draw/winner conflict message.
C13_Witness ==
    /\ pc = "rejected"
    /\ verdict = "draw_winner_conflict"
    /\ displayed_matches # {}

\* Some typed draw pair is, once sorted, no pairing of the round.
DrawOutsideRound(d) ==
    \E i \in 1..Len(d) :
        SortedPair(d[i][1], d[i][2]) \notin PairsOf(round_pairings_list)

\* What C14 asks of a validation step.
C14_Step ==
    /\ (pc = "validate" /\ DrawOutsideRound(draws))
          => /\ pc' = "rejected"
             /\ ~Accepted(verdict')
             /\ Scores(players') = Scores(players)
    /\ (pc = "validate" /\ pc' = "apply")
          => /\ \A i \in 1..Len(draws') :
                   draws'[i] \in PairsOf(round_pairings_list)
             /\ Len(draws') = Len(draws)

\* C14: (interactive) a declared draw pair is accepted only if its sorted
\* form is a pairing of the current round; a draw pair of two competitors
\* who are not paired with each other this round is rejected and no
\* counter changes.
C14_DrawPairMustBeRoundPairing ==
    /\ [](pc = "apply" => ~DrawOutsideRound(draws))
    /\ [][C14_Step]_vars

\* In round 2 a draw is declared, and waits for its validation, for two
\* competitors who were paired in round 1 and play other opponents now.
C14_Witness ==
    /\ pc = "validate"
    /\ round_num = 2
    /\ input_ok = NoInput
    /\ Len(draws) = 1
    /\ SortedPair(draws[1][1], draws[1][2]) \in PairsOf(tournament_history[1])
    /\ SortedPair(draws[1][1], draws[1][2]) \notin PairsOf(round_pairings_list)
    /\ {draws[1][1], draws[1][2]} \subseteq RoundMembers

\* In the loop every id is in the working list or in a formed pair: the
\* iterations run so far are as many as the pairs.
C16_LoopMeasure ==
    /\ pc = "pair" =>
          /\ 2 * Len(round_pairings_list) + Len(players_to_pair) = num_players
          /\ Len(round_pairings_list) <= num_players \div 2
    /\ pc \in PairedPcs =>
          /\ Len(players_to_pair) <= 1
          /\ Len(round_pairings_list) <= num_players \div 2

\* An iteration shrinks the working list.
C16_Step ==
    (pc = "pair" /\ pc' = "pair")
       => Len(players_to_pair') < Len(players_to_pair)

\* C16: the pairing loop of a round terminates: every iteration shrinks
\* the working list, the loop runs at most floor(N/2) iterations, and it
\* is left with 0 or 1 ids in the list.
C16_PairingLoopTerminates ==
    /\ []C16_LoopMeasure
    /\ [][C16_Step]_vars
    /\ (pc = "pair") ~> (pc \in PairedPcs)

\* The loop of a second round of four competitors has ended after two
\* iterations with an empty working list.
C16_Witness ==
    /\ pc \in PairedPcs
    /\ round_num = 2
    /\ num_players = 4
    /\ Len(round_pairings_list) = 2
    /\ players_to_pair = << >>

\* C17: the failure states of the pairing are unreachable: the selector
\* never returns None for a non-empty candidate list, the loop is never
\* left through the empty-candidates branch, and never more than one id is
\* left unpaired.
C17_NoPairingFailure ==
    /\ pairing_error = "none"
    /\ pc # "loop_exit"
    /\ pc \in PairedPcs => Len(players_to_pair) <= 1

\* A round was paired although the selector had only played candidates for
\* some head: the pair is a rematch.
C17_Witness ==
    /\ pc \in PairedPcs
    /\ round_num = 2
    /\ pairing_error = "none"
    /\ \E i \in 1..Len(round_pairings_list) :
          PlayedBefore(round_pairings_list[i])

\* C18: (interactive) a winners list that names both members of one
\* pairing of the round is never accepted.
C18_TwoWinnersOfOnePairingRejected ==
    pc = "apply" =>
        \A m \in displayed_matches :
            ~(m[1] \in Range(winners) /\ m[2] \in Range(winners))

\* What a step adds to a competitor's number of results.
Gain(pid) == Delta(pid)[1] + Delta(pid)[2] + Delta(pid)[3]

\* C19: (interactive) each pairing of a round is applied at most once,
\* also when the accepted declaration repeats a winner or a draw pair: the
\* application adds at most one result to any competitor and lowers no
\* counter.
C19_NoDoubleCounting ==
    [][ (variant = "interactive" /\ pc = "apply") =>
          \A pid \in DOMAIN players :
             /\ Gain(pid) \in {0, 1}
             /\ Delta(pid)[1] >= 0
             /\ Delta(pid)[2] >= 0
             /\ Delta(pid)[3] >= 0 ]_vars

\* A declaration naming the same winner twice was accepted.
C19_Witness ==
    /\ pc = "apply"
    /\ Len(winners) = 2
    /\ winners[1] = winners[2]

\* The rounds whose results are applied.
CompletedRounds ==
    { r \in DOMAIN tournament_history :
        r < round_num \/ pc \in {"finish", "done"} }

\* In how many completed rounds a competitor was paired.
RoundsPaired(pid) ==
    Cardinality({ r \in CompletedRounds :
                    pid \notin Unpaired(tournament_history[r]) })

C20_Counted ==
    variant = "simulated" =>
        \A pid \in DOMAIN players :
            players[pid].wins + players[pid].losses + players[pid].draws
              = RoundsPaired(pid)

C20_Step ==
    (variant = "simulated" /\ pc = "simulate") =>
        /\ \A m \in displayed_matches : Decisive(m) \/ Drawn(m)
        /\ \A pid \in DOMAIN players :
              pid \notin RoundMembers => Delta(pid) = << 0, 0, 0 >>

\* C20: (simulated) the result step resolves every pairing of the round
\* exactly once, as a win of either member or as a draw, so that after
\* the completed rounds every competitor's wins + losses + draws is the
\* number of those rounds in which the competitor was paired.
C20_SimulatedResolvesEveryPairing ==
    /\ []C20_Counted
    /\ [][C20_Step]_vars

\* Three competitors of different ratings have finished two rounds, one of
\* them with a bye and a draw.
C20_Witness ==
    /\ variant = "simulated"
    /\ pc = "done"
    /\ num_players = 3
    /\ num_rounds = 2
    /\ \E a \in DOMAIN players : \E b \in DOMAIN players :
          /\ players[a].rating = None
          /\ players[b].rating = 1800
    /\ \E pid \in DOMAIN players :
          /\ players[pid].draws = 1
          /\ players[pid].wins + players[pid].losses = 0

Ratings(pl) == [ pid \in DOMAIN pl |-> pl[pid].rating ]

PlayedSets(pl) == [ pid \in DOMAIN pl |-> pl[pid].played ]

\* The positions from which the next step applies a round's results.
ResultPcs == {"apply", "simulate"}

\* The records as the setup creates them: no result, nobody played.
C21_FreshAtFirstRound ==
    (pc = "round" /\ round_num = 1) =>
        \A pid \in DOMAIN players :
            /\ players[pid].wins = 0
            /\ players[pid].losses = 0
            /\ players[pid].draws = 0
            /\ players[pid].played = {}

\* What C21 asks of every step.
C21_Step ==
    /\ pc # "start" =>
          /\ DOMAIN players' = DOMAIN players
          /\ Ratings(players') = Ratings(players)
    /\ (pc # "start" /\ pc \notin ResultPcs) =>
          Scores(players') = Scores(players)
    /\ pc \in ResultPcs =>
          /\ PlayedSets(players') = PlayedSets(players)
          /\ \A pid \in DOMAIN players :
                /\ Delta(pid)[1] \in {0, 1}
                /\ Delta(pid)[2] \in {0, 1}
                /\ Delta(pid)[3] \in {0, 1}
    /\ (pc = "pair" /\ pc' = "pair") =>
          LET pair == round_pairings_list'[Len(round_pairings_list')]
          IN  /\ Len(round_pairings_list') = Len(round_pairings_list) + 1
              /\ \A pid \in DOMAIN players :
                    players'[pid].played =
                       IF pid = pair[1] THEN players[pid].played \cup {pair[2]}
                       ELSE IF pid = pair[2]
                       THEN players[pid].played \cup {pair[1]}
                       ELSE players[pid].played
    /\ (pc # "start" /\ pc # "pair") =>
          PlayedSets(players') = PlayedSets(players)

\* C21: wins, losses and draws start at 0 and change only in the result
\* step, each by 0 or +1; a pairing step changes only the played sets of
\* the two members of the pair it forms; the result step changes no played
\* set and no rating; the set of competitor ids never changes after setup.
C21_FrameOfEachStep ==
    /\ []C21_FreshAtFirstRound
    /\ [][C21_Step]_vars

\* Two rounds of three competitors are over: somebody has two results and
\* two opponents, somebody had a bye.
C21_Witness ==
    /\ pc = "done"
    /\ num_players = 3
    /\ num_rounds = 2
    /\ \E pid \in DOMAIN players :
          /\ players[pid].wins + players[pid].losses + players[pid].draws = 2
          /\ Cardinality(players[pid].played) = 2
    /\ \E pid \in DOMAIN players :
          players[pid].wins + players[pid].losses + players[pid].draws < 2

\* A pair of two distinct competitor ids, the smaller first.
CanonicalPair(pair) ==
    /\ pair[1] \in 1..num_players
    /\ pair[2] \in 1..num_players
    /\ pair[1] < pair[2]

C22_HistoryCanonical ==
    /\ pc \in PairedPcs =>
          /\ round_num \in DOMAIN tournament_history
          /\ tournament_history[round_num] = round_pairings_list
    /\ \A r \in DOMAIN tournament_history :
          \A i \in 1..Len(tournament_history[r]) :
              CanonicalPair(tournament_history[r][i])
    /\ DOMAIN tournament_history \subseteq 1..round_num
    /\ pc = "done" => DOMAIN tournament_history = 1..num_rounds

\* An entry of the history stays what it is.
C22_Step ==
    \A r \in DOMAIN tournament_history :
        /\ r \in DOMAIN tournament_history'
        /\ tournament_history'[r] = tournament_history[r]

\* C22: once round r is paired, the history maps r to the pairs formed in
\* round r in formation order, each a pair (a,b) of distinct ids with
\* a < b; no later step changes the entry; a finished tournament has the
\* keys 1..num_rounds.
C22_HistoryAppendOnly ==
    /\ []C22_HistoryCanonical
    /\ [][C22_Step]_vars

\* A finished tournament of two rounds whose first round formed the pair
\* with the larger ids first.
C22_Witness ==
    /\ pc = "done"
    /\ num_rounds = 2
    /\ num_players = 4
    /\ Len(tournament_history[1]) = 2
    /\ tournament_history[1][1][1] > tournament_history[1][2][1]
    /\ tournament_history[2] # tournament_history[1]

C23_FinishedAfterAllRounds ==
    pc = "done" =>
        /\ round_num = num_rounds
        /\ DOMAIN tournament_history = 1..num_rounds

\* A rejection keeps the round and asks again, an acceptance goes on to the
\* application, and only the result step moves to the next round.
C23_Step ==
    /\ (pc = "validate" /\ ~Accepted(verdict'))
          => (pc' = "rejected" /\ round_num' = round_num)
    /\ pc = "rejected" => (pc' = "input" /\ round_num' = round_num)
    /\ (pc = "validate" /\ Accepted(verdict'))
          => (pc' = "apply" /\ round_num' = round_num)
    /\ pc \in ResultPcs =>
          \/ round_num < num_rounds /\ round_num' = round_num + 1
                                    /\ pc' = "round"
          \/ round_num = num_rounds /\ round_num' = round_num
                                    /\ pc' = "finish"
    /\ round_num' # round_num => pc \in ResultPcs \cup {"start"}

\* C23: the simulated tournament always finishes, after exactly num_rounds
\* rounds; the interactive one asks again after every rejection without
\* leaving the round, goes on after every acceptance, and finishes if in
\* every round an accepted declaration eventually comes.
C23_DriverLiveness ==
    /\ []C23_FinishedAfterAllRounds
    /\ [][C23_Step]_vars
    /\ (pc = "rejected") ~> (pc = "input")
    /\ (pc = "start" /\ ~BadParams) ~> (pc = "done")

\* An interactive tournament of two rounds is finished and the last
\* declaration was accepted with every match resolved.
C23_Witness ==
    /\ variant = "interactive"
    /\ pc = "done"
    /\ num_rounds = 2
    /\ round_num = 2
    /\ verdict = "accepted"
    /\ num_players = 4

\* The head of the working list gets the same opponent from either file's
\* find_best_opponent.
C24_SameSelection ==
    (pc = "pair" /\ Len(players_to_pair) >= 2) =>
        find_best_opponent(Head(players_to_pair), Tail(players_to_pair),
                           players)
          = find_best_opponent_sim(Head(players_to_pair),
                                   Tail(players_to_pair), players)

\* A step of the pairing loop of either driver is the step that the loop of
\* the interactive file and the loop of the simulated file each take from
\* that state; the bye after the loop is the id left in the list.
C24_Step ==
    /\ (pc = "pair" /\ Len(players_to_pair) >= 2) =>
          /\ PairIteration(Head(players_to_pair), Tail(players_to_pair),
                           find_best_opponent(Head(players_to_pair),
                                              Tail(players_to_pair), players))
          /\ PairIteration(Head(players_to_pair), Tail(players_to_pair),
                           find_best_opponent_sim(Head(players_to_pair),
                                                  Tail(players_to_pair),
                                                  players))
    /\ (pc = "pair" /\ Len(players_to_pair) < 2) =>
          /\ bye_player_id' = IF Len(players_to_pair) = 1
                              THEN players_to_pair[1] ELSE None
          /\ tournament_history'[round_num] = round_pairings_list
          /\ players' = players

\* C24: the two files implement the same pairing engine: from every
\* standings and working list that either driver reaches, both files'
\* find_best_opponent return the same opponent and both pairing loops make
\* the same step, so they form the same pairing list, leave the same bye
\* and update the played sets alike.
C24_SamePairingEngine ==
    /\ []C24_SameSelection
    /\ [][C24_Step]_vars

\* The simulated driver has formed the first pair of a second round of
\* four out of two competitors who had not met, and their round-1
\* opponents are the two ids left in the working list.
C24_Witness ==
    /\ variant = "simulated"
    /\ pc = "pair"
    /\ round_num = 2
    /\ num_players = 4
    /\ Len(round_pairings_list) = 1
    /\ Len(players_to_pair) = 2
    /\ ~PlayedBefore(round_pairings_list[1])
    /\ Range(players_to_pair)
         = round_start[round_pairings_list[1][1]].played
             \cup round_start[round_pairings_list[1][2]].played

=============================================================================
